---- MODULE Spec2Model ----
(***************************************************************************)
(* Model of the REST gateway of xo-server (RestApi, mounted on /rest/v0):  *)
(* the access gate, the Express route table with its two path-parameter    *)
(* validators, and the terminal handlers (list, get, patch, import,        *)
(* delete, disk export, archive export).                                   *)
(*                                                                         *)
(* A request is a record; the Express router is modelled by what it does   *)
(* with the registered layers: layers are tried in registration order, a   *)
(* layer matches on path and method, its parameters are validated in path  *)
(* order (a value already validated for this request is not validated      *)
(* again), next('route') resumes the search after the current layer, and   *)
(* next(error) leaves the router with the error.                           *)
(***************************************************************************)
EXTENDS Integers, Sequences, FiniteSets, TLC

\* number of body chunks a backend export stream may deliver
MaxChunks == 2
\* largest value of the limit query parameter that is explored
MaxLimit == 2
\* number of requests that are accepted
MaxRequests == 2

Undefined == "undefined"

\* request slots; requests that arrive one after the other use the first
Reqs == {"r1", "r2"}
FirstSlot == "r1"

(***************************************************************************)
(* Errors.                                                                 *)
(***************************************************************************)
NoError == [name |-> "none", id |-> "", type |-> ""]
Err(name) == [name |-> name, id |-> "", type |-> ""]
noSuchObject(id, type) == [name |-> "noSuchObject", id |-> id, type |-> type]
invalidCredentials == Err("invalidCredentials")

\* xo-common/api-errors: factory.is(error, data) compares the error's kind
\* and, when data is given, the error's data
noSuchObjectIs(error, id, type) ==
  error.name = "noSuchObject" /\ error.id = id /\ error.type = type
invalidCredentialsIs(error) == error.name = "invalidCredentials"

(***************************************************************************)
(* The collection descriptor table.                                        *)
(***************************************************************************)
types ==
  << "host", "network", "pool", "SR", "VBD", "VDI-snapshot", "VDI", "VIF",
     "VM-snapshot", "VM-template", "VM" >>

toLocaleLowerCase(type) ==
  CASE type = "host" -> "host"
    [] type = "network" -> "network"
    [] type = "pool" -> "pool"
    [] type = "SR" -> "sr"
    [] type = "VBD" -> "vbd"
    [] type = "VDI-snapshot" -> "vdi-snapshot"
    [] type = "VDI" -> "vdi"
    [] type = "VIF" -> "vif"
    [] type = "VM-snapshot" -> "vm-snapshot"
    [] type = "VM-template" -> "vm-template"
    [] type = "VM" -> "vm"

CollectionId(type) == toLocaleLowerCase(type) \o "s"

\* Object.fromEntries(types.map(type => [id, { id, isCorrectType, type }])):
\* the own properties of the table (isCorrectType is IsCorrectType below)
BuildCollections ==
  [id \in {CollectionId(types[i]) : i \in DOMAIN types} |->
     [kind |-> "descriptor", id |-> id,
      type |-> CHOOSE t \in {types[i] : i \in DOMAIN types} : CollectionId(t) = id]]

\* the table is a plain object: a property read that misses the own
\* properties continues on Object.prototype
ObjectPrototypeKeys == {"constructor"}

\* value of req.collection before any validator has run
UnsetCollection == [kind |-> "unset", id |-> Undefined, type |-> Undefined]
\* an inherited property value: an object with neither id, type nor isCorrectType
InheritedValue == [kind |-> "inherited", id |-> Undefined, type |-> Undefined]
\* the result of a property read that finds nothing
UndefinedValue == [kind |-> "undefined", id |-> Undefined, type |-> Undefined]

LookupCollection(table, id) ==
  IF id \in DOMAIN table THEN table[id]
  ELSE IF id \in ObjectPrototypeKeys THEN InheritedValue
  ELSE UndefinedValue

\* isCorrectType: _ => _.type === type
IsCorrectType(collection, object) == object.type = collection.type


(***************************************************************************)
(* The backend (external collaborators): sessions and the object graph.    *)
(***************************************************************************)
Tokens == {"tAdmin", "tUser", "tBad"}

\* authenticate(token) -> (principal, error): the principal of a session
\* token, or an invalid-credentials failure
Authenticate(token) ==
  CASE token = "tAdmin" -> [ok |-> TRUE, permission |-> "admin", error |-> NoError]
    [] token = "tUser" -> [ok |-> TRUE, permission |-> "user", error |-> NoError]
    [] OTHER -> [ok |-> FALSE, permission |-> "none", error |-> invalidCredentials]

\* the resources the backend may hold; n is the backend's iteration order
Universe ==
  { [n |-> 1, id |-> "d1", type |-> "VDI", name_label |-> "x"],
    [n |-> 2, id |-> "m1", type |-> "VM", name_label |-> "x"],
    [n |-> 3, id |-> "d2", type |-> "VDI", name_label |-> "y"],
    [n |-> 4, id |-> "d1.vhd", type |-> "VDI", name_label |-> "y"],
    [n |-> 5, id |-> "s1", type |-> "SR", name_label |-> "x"] }

Names == {"x", "y"}

\* getObject(id, type) -> Resource: the object of that id, provided it has
\* the requested type when one is requested
GetObject(objs, id, type) ==
  LET found == {o \in objs : o.id = id /\ (type = Undefined \/ o.type = type)}
  IN IF found = {} THEN [ok |-> FALSE, error |-> noSuchObject(id, type)]
     ELSE [ok |-> TRUE, error |-> NoError]

(***************************************************************************)
(* Requests.                                                               *)
(***************************************************************************)
Methods == {"GET", "PATCH", "POST", "DELETE"}

NoSeg == [id |-> "", ext |-> ""]
\* the text of an object segment: id, or id.ext
Full(o) == IF o.ext = "" THEN o.id ELSE o.id \o "." \o o.ext

CollSegs == {"vms", "vdis", "srs", "VMs", "constructor"}
ObjSegs ==
  { [id |-> "d1", ext |-> ""], [id |-> "d1", ext |-> "vhd"],
    [id |-> "d2", ext |-> "raw"], [id |-> "m1", ext |-> ""],
    [id |-> "m1", ext |-> "xva"], [id |-> "s1", ext |-> ""],
    [id |-> "zz", ext |-> ""] }

\* request paths below the mount point, as their segments
Paths ==
  {[len |-> 0, c |-> "", o |-> NoSeg, t |-> ""]}
    \cup {[len |-> 1, c |-> c, o |-> NoSeg, t |-> ""] : c \in CollSegs}
    \cup {[len |-> 2, c |-> c, o |-> o, t |-> ""] : c \in CollSegs, o \in ObjSegs}
    \cup {[len |-> 3, c |-> c, o |-> o, t |-> "vdis"] :
            c \in {"srs", "vms"}, o \in {[id |-> "s1", ext |-> ""], [id |-> "zz", ext |-> ""]}}

\* req.path
PathText(p) ==
  CASE p.len = 0 -> "/"
    [] p.len = 1 -> "/" \o p.c
    [] p.len = 2 -> "/" \o p.c \o "/" \o Full(p.o)
    [] p.len = 3 -> "/" \o p.c \o "/" \o Full(p.o) \o "/" \o p.t

baseUrl == "/rest/v0"

Cookies ==
  { [authenticationToken |-> Undefined, token |-> Undefined],
    [authenticationToken |-> "tAdmin", token |-> Undefined],
    [authenticationToken |-> Undefined, token |-> "tAdmin"],
    [authenticationToken |-> "tUser", token |-> "tAdmin"],
    [authenticationToken |-> "tBad", token |-> Undefined],
    [authenticationToken |-> Undefined, token |-> "tUser"] }

\* cookies.authenticationToken ?? cookies.token
CookieToken(cookies) ==
  IF cookies.authenticationToken # Undefined THEN cookies.authenticationToken
  ELSE cookies.token

NoHeaders == [h \in {} |-> ""]
NoParams == [collection |-> Undefined, object |-> Undefined, format |-> Undefined]
NoCalled == [match |-> Undefined, error |-> "none"]
NoLimit == -1
NoQuery ==
  [filter |-> Undefined, limit |-> NoLimit, fields |-> Undefined, ndjson |-> Undefined,
   raw |-> Undefined, name_label |-> Undefined, name_description |-> Undefined,
   compress |-> Undefined]
NoBody == [name_description |-> Undefined, name_label |-> Undefined, other |-> Undefined]
NoStream == [statusCode |-> 0, headers |-> NoHeaders]
NoOut == [mode |-> "none", items |-> << >>, body |-> << >>]

\* what app.authenticateUser settled with, once it has
NoAuth == [state |-> "pending", permission |-> "none", error |-> NoError]

IdleRequest ==
  [pc |-> "idle", method |-> "GET", path |-> [len |-> 0, c |-> "", o |-> NoSeg, t |-> ""],
   cookies |-> [authenticationToken |-> Undefined, token |-> Undefined],
   idx |-> 1, layer |-> 0, params |-> NoParams, keys |-> << >>,
   calledCollection |-> NoCalled, calledObject |-> NoCalled,
   collection |-> UnsetCollection, xoObject |-> Undefined, xapiObject |-> Undefined,
   query |-> NoQuery, body |-> NoBody,
   calls |-> << >>, awaiting |-> {},
   status |-> 0, envelopes |-> 0, headers |-> NoHeaders, out |-> NoOut,
   forwarded |-> NoError, ran |-> << >>, validated |-> << >>,
   stream |-> NoStream, copied |-> 0, pipeline |-> "none", stage |-> "",
   auth |-> NoAuth]

VARIABLES
  collections,  \* the descriptor table built by the constructor
  objects,      \* the resources the backend holds
  req,          \* the request in each slot
  served        \* number of requests accepted so far

vars == << collections, objects, req, served >>

Init ==
  /\ collections = BuildCollections
  /\ objects = Universe
  /\ req = [r \in Reqs |-> IdleRequest]
  /\ served = 0

(***************************************************************************)
(* Express: responses and leaving the router.                              *)
(***************************************************************************)
\* res.sendStatus(code): status line and body, response ended
SendStatus(q, code) ==
  [q EXCEPT !.pc = "done", !.status = code, !.envelopes = @ + 1]

\* next(error) with an error other than 'route': no later route layer matches
\* with a pending error, and the router has no error-handling layer, so the
\* error leaves the router for the application's generic error handler
NextError(q, error) == [q EXCEPT !.pc = "done", !.forwarded = error]

\* next('route'): resume the search after the current layer
NextRoute(q) == [q EXCEPT !.pc = "next", !.layer = 0, !.keys = << >>]

(***************************************************************************)
(* The access gate: api.use(...)                                           *)
(***************************************************************************)
\* a request arrives; the gate calls app.authenticateUser with the token
AccessGate(r) ==
  /\ r = FirstSlot
  /\ \A s \in Reqs : req[s].pc = "idle"
  /\ served < MaxRequests
  /\ served' = served + 1
  /\ \E m \in Methods, p \in Paths, c \in Cookies :
       req' = [req EXCEPT ![r] = [IdleRequest EXCEPT
                 !.pc = "auth", !.method = m, !.path = p, !.cookies = c]]
  /\ UNCHANGED << collections, objects >>

\* mutant of GateFulfilled: the permission level is not looked at
GateFulfilledAnyUser(q, user) == [q EXCEPT !.pc = "next", !.idx = 1]

\* the fulfilment callback of the gate
GateFulfilled(q, user) ==
  IF user.permission = "admin" THEN [q EXCEPT !.pc = "next", !.idx = 1]
  ELSE SendStatus(q, 401)

\* mutant of GateRejected: every authentication failure is answered 401
GateRejectedUnauthorized(q, error) == SendStatus(q, 401)

\* the rejection callback of the gate
GateRejected(q, error) ==
  IF invalidCredentialsIs(error) THEN SendStatus(q, 401)
  ELSE NextError(q, error)

\* the authentication promise settles: with the principal or the
\* invalid-credentials failure of the token, or with any other failure
AuthSettle(r) ==
  /\ req[r].pc = "auth"
  /\ \E failure \in {NoError, Err("authError")} :
       LET a == Authenticate(CookieToken(req[r].cookies))
           error == IF failure # NoError THEN failure ELSE a.error
           settled == [state |-> IF error = NoError THEN "fulfilled" ELSE "rejected",
                       permission |-> IF error = NoError THEN a.permission ELSE "none",
                       error |-> error]
           q == [req[r] EXCEPT !.auth = settled]
       IN req' = [req EXCEPT ![r] =
                    IF error = NoError THEN GateFulfilled(q, a) ELSE GateRejected(q, error)]
  /\ UNCHANGED << collections, objects, served >>


(***************************************************************************)
(* The route table, in registration order.                                 *)
(***************************************************************************)
Routes ==
  << [method |-> "GET", kind |-> "root"],         \* /
     [method |-> "GET", kind |-> "list"],         \* /:collection
     [method |-> "GET", kind |-> "get"],          \* /:collection/:object
     [method |-> "PATCH", kind |-> "patch"],      \* /:collection/:object
     [method |-> "POST", kind |-> "import"],      \* /srs/:object/vdis
     [method |-> "DELETE", kind |-> "delete"],    \* /:collection(...)/:object
     [method |-> "GET", kind |-> "exportVdi"],    \* /:collection(...)/:object.:format(vhd|raw)
     [method |-> "GET", kind |-> "exportXva"] >>  \* /:collection(...)/:object.xva

\* the delete route's alternation widened by the storage repositories
DestroyCollectionsAndSrs ==
  {"vdis", "vdi-snapshots", "vms", "vm-snapshots", "vm-templates", "srs"}
DestroyCollections == {"vdis", "vdi-snapshots", "vms", "vm-snapshots", "vm-templates"}
VdiCollections == {"vdis", "vdi-snapshots"}
VmCollections == {"vms", "vm-snapshots", "vm-templates"}
VdiFormats == {"vhd", "raw"}

\* does the path pattern of route k match the path
MatchPath(k, p) ==
  CASE Routes[k].kind = "root" -> p.len = 0
    [] Routes[k].kind = "list" -> p.len = 1
    [] Routes[k].kind \in {"get", "patch"} -> p.len = 2
    [] Routes[k].kind = "import" -> p.len = 3 /\ p.c = "srs" /\ p.t = "vdis"
    [] Routes[k].kind = "delete" -> p.len = 2 /\ p.c \in DestroyCollections
    [] Routes[k].kind = "exportVdi" ->
         p.len = 2 /\ p.c \in VdiCollections /\ p.o.ext \in VdiFormats
    [] Routes[k].kind = "exportXva" ->
         p.len = 2 /\ p.c \in VmCollections /\ p.o.ext = "xva"

\* the parameters with the whole segment as object id on the export routes
PathParamsWholeSegment(k, p) ==
  CASE Routes[k].kind = "root" -> NoParams
    [] Routes[k].kind = "list" -> [NoParams EXCEPT !.collection = p.c]
    [] Routes[k].kind \in {"get", "patch", "delete"} ->
         [NoParams EXCEPT !.collection = p.c, !.object = Full(p.o)]
    [] Routes[k].kind = "import" -> [NoParams EXCEPT !.object = Full(p.o)]
    [] Routes[k].kind = "exportVdi" ->
         [collection |-> p.c, object |-> Full(p.o), format |-> p.o.ext]
    [] Routes[k].kind = "exportXva" ->
         [NoParams EXCEPT !.collection = p.c, !.object = Full(p.o)]

\* req.params for a path matched by route k
PathParams(k, p) ==
  CASE Routes[k].kind = "root" -> NoParams
    [] Routes[k].kind = "list" -> [NoParams EXCEPT !.collection = p.c]
    [] Routes[k].kind \in {"get", "patch", "delete"} ->
         [NoParams EXCEPT !.collection = p.c, !.object = Full(p.o)]
    [] Routes[k].kind = "import" -> [NoParams EXCEPT !.object = Full(p.o)]
    [] Routes[k].kind = "exportVdi" ->
         [collection |-> p.c, object |-> p.o.id, format |-> p.o.ext]
    [] Routes[k].kind = "exportXva" ->
         [NoParams EXCEPT !.collection = p.c, !.object = p.o.id]

\* the named parameters of route k that have a validator, in path order
ParamKeys(k) ==
  CASE Routes[k].kind = "root" -> << >>
    [] Routes[k].kind = "list" -> << "collection" >>
    [] Routes[k].kind = "import" -> << "object" >>
    [] OTHER -> << "collection", "object" >>

\* a layer matches when its path pattern matches and its route handles the method
MatchLayer(k, q) == MatchPath(k, q.path) /\ Routes[k].method = q.method

\* the router's next(): the first layer at or after idx that matches; without
\* one the request leaves the router unanswered (not found)
Dispatch(r) ==
  /\ req[r].pc = "next"
  /\ LET q == req[r]
         matching == {k \in q.idx..Len(Routes) : MatchLayer(k, q)}
     IN IF matching = {}
        THEN req' = [req EXCEPT ![r] = [q EXCEPT !.pc = "done", !.status = 404]]
        ELSE LET k == CHOOSE k \in matching : \A j \in matching : k <= j
             IN req' = [req EXCEPT ![r] =
                          [q EXCEPT !.pc = "params", !.idx = k + 1, !.layer = k,
                                    !.params = PathParams(k, q.path),
                                    !.keys = ParamKeys(k)]]
  /\ UNCHANGED << collections, objects, served >>

\* all parameters of the layer are validated: the route's handler is entered
EnterHandler(r) ==
  /\ req[r].pc = "params"
  /\ req[r].keys = << >>
  /\ req' = [req EXCEPT ![r].pc = "handler"]
  /\ UNCHANGED << collections, objects, served >>

(***************************************************************************)
(* The path-parameter validators.                                          *)
(***************************************************************************)
\* the outcome of a validator continues the parameter processing
ParamDone(q) == [q EXCEPT !.keys = Tail(@)]

\* api.param('collection', ...)
CollectionValidator(q, table) ==
  LET id == q.params.collection
      collection == LookupCollection(table, id)
      seen == [q EXCEPT !.validated = Append(@, [param |-> "collection", value |-> id,
                                                  collection |-> q.collection.kind])]
  IN IF collection.kind = "undefined"
     THEN NextRoute([seen EXCEPT !.calledCollection = [match |-> id, error |-> "route"]])
     ELSE ParamDone([seen EXCEPT !.collection = collection,
                                 !.calledCollection = [match |-> id, error |-> "none"]])

\* the collection validator keeping the resolved collection in one place
\* for all requests
ParamCollectionShared(r) ==
  /\ req[r].pc = "params"
  /\ req[r].keys # << >>
  /\ Head(req[r].keys) = "collection"
  /\ LET q == req[r]
         after == IF q.calledCollection.match = q.params.collection
                  THEN IF q.calledCollection.error = "route" THEN NextRoute(q)
                       ELSE ParamDone(q)
                  ELSE CollectionValidator(q, collections)
     IN req' = [s \in Reqs |->
                  IF s = r THEN after ELSE [req[s] EXCEPT !.collection = after.collection]]
  /\ UNCHANGED << collections, objects, served >>

\* Express runs a parameter's validator once per request and value: for a
\* value already validated it replays the recorded outcome
ParamCollection(r) ==
  /\ req[r].pc = "params"
  /\ req[r].keys # << >>
  /\ Head(req[r].keys) = "collection"
  /\ LET q == req[r]
     IN req' = [req EXCEPT ![r] =
                  IF q.calledCollection.match = q.params.collection
                  THEN IF q.calledCollection.error = "route" THEN NextRoute(q)
                       ELSE ParamDone(q)
                  ELSE CollectionValidator(q, collections)]
  /\ UNCHANGED << collections, objects, served >>


\* a backend call of a request: st is "pending", "ok" or "failed"
Call(op, target, arg, st) ==
  [op |-> op, target |-> target, arg |-> arg, st |-> st, result |-> << >>]

\* the object validator with every backend failure taken for a missing object
ObjectValidatorAnyMiss(q, objs, failure) ==
  LET id == q.params.object
      seen == [q EXCEPT !.validated = Append(@, [param |-> "object", value |-> id,
                                                  collection |-> q.collection.kind])]
  IN IF q.collection.kind = "unset"
     THEN NextError([seen EXCEPT !.calledObject = [match |-> id, error |-> "error"]],
                    Err("TypeError"))
     ELSE LET type == q.collection.type
              got == IF failure = "getObject"
                     THEN [ok |-> FALSE, error |-> Err("backendError")]
                     ELSE GetObject(objs, id, type)
              asked == Call("getObject", id, type, IF got.ok THEN "ok" ELSE "failed")
              fetched == [seen EXCEPT !.calls = Append(@,
                            IF got.ok THEN asked ELSE [asked EXCEPT !.result = got.error])]
          IN IF ~got.ok \/ failure = "getXapiObject"
             THEN NextRoute([fetched EXCEPT
                               !.calledObject = [match |-> id, error |-> "route"]])
             ELSE ParamDone([fetched EXCEPT !.xoObject = id, !.xapiObject = id,
                               !.calledObject = [match |-> id, error |-> "none"]])

\* api.param('object', ...): failure says where the backend fails with an
\* error other than no-such-object ("none": nowhere)
ObjectValidator(q, objs, failure) ==
  LET id == q.params.object
      seen == [q EXCEPT !.validated = Append(@, [param |-> "object", value |-> id,
                                                  collection |-> q.collection.kind])]
  IN IF q.collection.kind = "unset"
     THEN \* const { type } = req.collection throws; Express passes what a
          \* validator throws to next
          NextError([seen EXCEPT !.calledObject = [match |-> id, error |-> "error"]],
                    Err("TypeError"))
     ELSE LET type == q.collection.type
              got == IF failure = "getObject"
                     THEN [ok |-> FALSE, error |-> Err("backendError")]
                     ELSE GetObject(objs, id, type)
              asked == Call("getObject", id, type, IF got.ok THEN "ok" ELSE "failed")
              fetched == [seen EXCEPT !.calls = Append(@,
                            IF got.ok THEN asked ELSE [asked EXCEPT !.result = got.error])]
          IN IF ~got.ok
             THEN IF noSuchObjectIs(got.error, id, type)
                  THEN NextRoute([fetched EXCEPT
                                    !.calledObject = [match |-> id, error |-> "route"]])
                  ELSE NextError([fetched EXCEPT
                                    !.calledObject = [match |-> id, error |-> "error"]],
                                 got.error)
             ELSE IF failure = "getXapiObject"
             THEN NextError([fetched EXCEPT !.xoObject = id,
                               !.calledObject = [match |-> id, error |-> "error"]],
                            Err("backendError"))
             ELSE ParamDone([fetched EXCEPT !.xoObject = id, !.xapiObject = id,
                               !.calledObject = [match |-> id, error |-> "none"]])

ParamObject(r) ==
  /\ req[r].pc = "params"
  /\ req[r].keys # << >>
  /\ Head(req[r].keys) = "object"
  /\ LET q == req[r]
     IN IF q.calledObject.match = q.params.object
        THEN req' = [req EXCEPT ![r] =
                       IF q.calledObject.error = "route" THEN NextRoute(q)
                       ELSE ParamDone(q)]
        ELSE \E failure \in {"none", "getObject", "getXapiObject"} :
               req' = [req EXCEPT ![r] = ObjectValidator(q, objects, failure)]
  /\ UNCHANGED << collections, objects, served >>

(***************************************************************************)
(* sendObjects                                                             *)
(***************************************************************************)
\* the sequence of the elements of a set of resources in the backend's order
RECURSIVE InOrder(_)
InOrder(set) ==
  IF set = {} THEN << >>
  ELSE LET first == CHOOSE o \in set : \A p \in set : o.n <= p.n
       IN << first >> \o InOrder(set \ {first})

\* the properties of a resource (n is the iteration order, not a property)
Properties(o) == [k \in DOMAIN o \ {"n"} |-> o[k]]

\* the values of the descriptor table, in insertion order; the predicate
\* isCorrectType is a function-valued property
DescriptorList(table) ==
  LET ids == [i \in DOMAIN types |-> CollectionId(types[i])]
  IN [i \in DOMAIN ids |->
        [id |-> table[ids[i]].id, type |-> table[ids[i]].type,
         isCorrectType |-> "[Function]"]]

FieldTexts == {"id", "name_label,nope"}
\* fields.split(',')
Split(text) ==
  CASE text = "id" -> {"id"}
    [] text = "name_label,nope" -> {"name_label", "nope"}
    [] OTHER -> {text}

\* a pick that keeps every requested name, the missing ones as undefined
PickOrUndefined(object, names) ==
  [k \in names |-> IF k \in DOMAIN object THEN object[k] ELSE Undefined]

\* lodash pick: the named properties that the object has
Pick(object, names) == [k \in names \cap DOMAIN object |-> object[k]]

makeUrl(basePath, object) == basePath \o "/" \o object.id

\* one element of results
Project(basePath, object, fields) ==
  IF fields # Undefined
  THEN LET picked == Pick(object, Split(fields))
       IN [k \in DOMAIN picked \cup {"href"} |->
             IF k = "href" THEN makeUrl(basePath, object) ELSE picked[k]]
  ELSE makeUrl(basePath, object)

\* Object.keys of an element of results: the picked properties in the order
\* they were requested, then href
KeysOf(object) ==
  SelectSeq(<< "id", "type", "name_label", "nope", "href" >>, LAMBDA k : k \in DOMAIN object)

RECURSIVE Members(_, _)
Members(object, keys) ==
  IF keys = << >> THEN ""
  ELSE "\"" \o Head(keys) \o "\":\"" \o object[Head(keys)] \o "\""
         \o (IF Len(keys) > 1 THEN "," ELSE "") \o Members(object, Tail(keys))

\* JSON.stringify of an element of results: a string when plain, else an
\* object with string values
JSONStringify(value, plain) ==
  IF plain THEN "\"" \o value \o "\""
  ELSE "{" \o Members(value, KeysOf(value)) \o "}"

\* res.json(results): the chunks of one JSON array
RECURSIVE resJson(_, _)
resJson(results, plain) ==
  IF results = << >> THEN << "[", "]" >>
  ELSE LET front == resJson(SubSeq(results, 1, Len(results) - 1), plain)
       IN SubSeq(front, 1, Len(front) - 1)
            \o (IF Len(results) > 1 THEN << "," >> ELSE << >>)
            \o << JSONStringify(results[Len(results)], plain), "]" >>

\* createNdJsonStream(results): for each element its JSON text, then a newline
RECURSIVE createNdJsonStream(_, _)
createNdJsonStream(results, plain) ==
  IF results = << >> THEN << >>
  ELSE << JSONStringify(Head(results), plain), "\n" >>
         \o createNdJsonStream(Tail(results), plain)

\* sendObjects with the streamed branch given the resources instead of results
sendObjectsStreamRaw(objs, q) ==
  LET basePath == baseUrl \o PathText(q.path)
      results == [i \in DOMAIN objs |-> Project(basePath, objs[i], q.query.fields)]
  IN [q EXCEPT !.pc = "done", !.status = 200, !.envelopes = @ + 1,
               !.out = IF q.query.ndjson # Undefined
                       THEN [mode |-> "ndjson", items |-> results,
                             body |-> createNdJsonStream(objs, FALSE)]
                       ELSE [mode |-> "json", items |-> results,
                             body |-> resJson(results, q.query.fields = Undefined)]]

\* sendObjects(objects, req, res), objects being a sequence of property sets
sendObjects(objs, q) ==
  LET basePath == baseUrl \o PathText(q.path)
      results == [i \in DOMAIN objs |-> Project(basePath, objs[i], q.query.fields)]
      plain == q.query.fields = Undefined
  IN [q EXCEPT !.pc = "done", !.status = 200, !.envelopes = @ + 1,
               !.out = IF q.query.ndjson # Undefined
                       THEN [mode |-> "ndjson", items |-> results,
                             body |-> createNdJsonStream(results, plain)]
                       ELSE [mode |-> "json", items |-> results,
                             body |-> resJson(results, plain)]]


(***************************************************************************)
(* Filters and listings.                                                   *)
(***************************************************************************)
FilterTexts == {"name_label:x", "type:VM"}
MalformedFilter == "("

\* complex-matcher: parse(text) fails on a malformed expression
CMParse(text) == [ok |-> text \in FilterTexts, pattern |-> text]

\* ParsedExpression.createPredicate(): Resource -> bool
UserFilter(pattern, object) ==
  CASE pattern = "name_label:x" -> object.name_label = "x"
    [] pattern = "type:VM" -> object.type = "VM"

\* filter => filter && CM.parse(filter).createPredicate()
handleOptionalUserFilter(filter) ==
  IF filter = Undefined THEN [threw |-> FALSE, predicate |-> Undefined]
  ELSE IF CMParse(filter).ok THEN [threw |-> FALSE, predicate |-> filter]
  ELSE [threw |-> TRUE, predicate |-> Undefined]

\* @vates/predicates every(...): the conjunction of the predicates that are
\* defined; member is the collection whose isCorrectType is the first one
every(member, predicate, object) ==
  /\ member.kind = "descriptor" => IsCorrectType(member, object)
  /\ predicate # Undefined => UserFilter(predicate, object)

Take(seq, limit) ==
  IF limit = NoLimit \/ limit >= Len(seq) THEN seq ELSE SubSeq(seq, 1, limit)

\* getObjects({ filter, limit }) -> [Resource]: the first limit resources
\* that satisfy the filter
GetObjects(objs, filter, limit) ==
  Take(InOrder({o \in objs : every(filter.member, filter.predicate, o)}), limit)

\* mutant of ListFilter: the membership predicate is left out
ListFilterUserOnly(q, predicate) == [member |-> InheritedValue, predicate |-> predicate]

\* the filter the list handler hands to getObjects
ListFilter(q, predicate) == [member |-> q.collection, predicate |-> predicate]

ListQueries ==
  { [NoQuery EXCEPT !.filter = f, !.limit = l, !.fields = fl, !.ndjson = nd] :
      f \in {Undefined, MalformedFilter} \cup FilterTexts,
      l \in {NoLimit} \cup (1..MaxLimit),
      fl \in {Undefined} \cup FieldTexts,
      nd \in {Undefined, ""} }

RootQueries ==
  { [NoQuery EXCEPT !.fields = fl, !.ndjson = nd] :
      fl \in {Undefined} \cup FieldTexts, nd \in {Undefined, ""} }

(***************************************************************************)
(* Asynchronous calls and await.                                           *)
(***************************************************************************)
\* the calls an await expression waits for: the promise it is given, or
\* nothing when the value is not a thenable (such a value is its own result)
AwaitSet(value) == IF value.thenable THEN value.calls ELSE {}

Settled(q) == \A i \in q.awaiting : q.calls[i].st # "pending"
Rejected(q) == \E i \in q.awaiting : q.calls[i].st = "failed"

\* issue one backend call and await its promise
CallAndAwait(q, call, stage) ==
  [q EXCEPT !.pc = "await", !.stage = stage, !.calls = Append(@, call),
            !.awaiting = AwaitSet([thenable |-> TRUE, calls |-> {Len(q.calls) + 1}])]

(***************************************************************************)
(* Terminal handlers.                                                      *)
(***************************************************************************)
Kind(q) == Routes[q.layer].kind
Entered(q, kind) == [q EXCEPT !.ran = Append(@, kind)]

\* api.get('/', ...)
HandlerRoot(r) ==
  /\ req[r].pc = "handler"
  /\ Kind(req[r]) = "root"
  /\ \E query \in RootQueries :
       req' = [req EXCEPT ![r] =
                 sendObjects(DescriptorList(collections),
                             [Entered(@, "root") EXCEPT !.query = query])]
  /\ UNCHANGED << collections, objects, served >>

\* the list handler's call with the limit left out
ListCallUnlimited(q) ==
  LET parsed == handleOptionalUserFilter(q.query.filter)
  IN IF parsed.threw THEN NextError(q, Err("parseError"))
     ELSE CallAndAwait(q, Call("getObjects", "",
                                [filter |-> ListFilter(q, parsed.predicate),
                                 limit |-> NoLimit], "pending"), "list")

\* api.get('/:collection', wrap(...)) up to the await: a throw inside the
\* async handler is caught by wrap and passed to next
ListCall(q) ==
  LET parsed == handleOptionalUserFilter(q.query.filter)
  IN IF parsed.threw THEN NextError(q, Err("parseError"))
     ELSE CallAndAwait(q, Call("getObjects", "",
                                [filter |-> ListFilter(q, parsed.predicate),
                                 limit |-> q.query.limit], "pending"), "list")

HandlerList(r) ==
  /\ req[r].pc = "handler"
  /\ Kind(req[r]) = "list"
  /\ \E query \in ListQueries :
       req' = [req EXCEPT ![r] = ListCall([Entered(@, "list") EXCEPT !.query = query])]
  /\ UNCHANGED << collections, objects, served >>

\* ... and after it: sendObjects(await app.getObjects(...), req, res)
ListSend(r) ==
  /\ req[r].pc = "await"
  /\ req[r].stage = "list"
  /\ Settled(req[r]) /\ ~Rejected(req[r])
  /\ LET q == req[r]
         got == q.calls[Len(q.calls)].result
     IN req' = [req EXCEPT ![r] =
                  sendObjects([i \in DOMAIN got |-> Properties(got[i])], q)]
  /\ UNCHANGED << collections, objects, served >>

\* api.get('/:collection/:object', ...): res.json(req.xoObject)
HandlerGet(r) ==
  /\ req[r].pc = "handler"
  /\ Kind(req[r]) = "get"
  /\ req' = [req EXCEPT ![r] =
               [Entered(@, "get") EXCEPT !.pc = "done", !.status = 200, !.envelopes = @ + 1,
                  !.out = [mode |-> "json", items |-> << req[r].xoObject >>,
                          body |-> << req[r].xoObject >>]]]
  /\ UNCHANGED << collections, objects, served >>


\* the bodies json() may hand to the patch handler
PatchBodies ==
  { [name_description |-> d, name_label |-> l, other |-> o] :
      d \in {Undefined} \cup Names, l \in {Undefined} \cup Names, o \in {Undefined, "z"} }

\* the key list with a third, non-whitelisted key
PatchKeysAndOther == << "name_description", "name_label", "other" >>
PatchKeys == << "name_description", "name_label" >>

\* the loop over the two keys: one set_<key>(value) call per key of the body
RECURSIVE PatchCalls(_, _, _)
PatchCalls(obj, body, keys) ==
  IF keys = << >> THEN << >>
  ELSE LET key == Head(keys)
           value == body[key]
       IN (IF value # Undefined THEN << Call("set_" \o key, obj, value, "pending") >>
           ELSE << >>) \o PatchCalls(obj, body, Tail(keys))

\* api.patch('/:collection/:object', json(), wrap(...)) up to the await:
\* promises is the array of the promises of the issued calls, and
\* "await promises" is given the array
PatchIssue(q) ==
  LET issued == PatchCalls(q.xapiObject, q.body, PatchKeys)
      promises == (Len(q.calls) + 1)..(Len(q.calls) + Len(issued))
  IN [q EXCEPT !.pc = "await", !.stage = "patch", !.calls = @ \o issued,
               !.awaiting = AwaitSet([thenable |-> FALSE, calls |-> promises])]

HandlerPatch(r) ==
  /\ req[r].pc = "handler"
  /\ Kind(req[r]) = "patch"
  /\ \E body \in PatchBodies :
       req' = [req EXCEPT ![r] = PatchIssue([Entered(@, "patch") EXCEPT !.body = body])]
  /\ UNCHANGED << collections, objects, served >>

\* ... and after it: res.sendStatus(200)
PatchRespond(r) ==
  /\ req[r].pc = "await"
  /\ req[r].stage = "patch"
  /\ Settled(req[r]) /\ ~Rejected(req[r])
  /\ req' = [req EXCEPT ![r] = SendStatus(@, 200)]
  /\ UNCHANGED << collections, objects, served >>

VDI_FORMAT_RAW == "raw"
VDI_FORMAT_VHD == "vhd"

\* the query a handler that calls one backend primitive may receive
CallQueries(kind) ==
  CASE kind = "import" ->
         { [NoQuery EXCEPT !.raw = raw, !.name_label = l, !.name_description = d] :
             raw \in {Undefined, ""}, l \in {Undefined} \cup Names,
             d \in {Undefined} \cup Names }
    [] kind = "exportXva" -> { [NoQuery EXCEPT !.compress = c] : c \in {Undefined, "true"} }
    [] OTHER -> { NoQuery }

\* the primitive each of these handlers calls first
FirstCall(q) ==
  CASE Kind(q) = "delete" -> Call("destroy", q.xapiObject, "", "pending")
    [] Kind(q) = "import" ->
         Call("importVdi", q.xapiObject,
              [format |-> IF q.query.raw # Undefined THEN VDI_FORMAT_RAW ELSE VDI_FORMAT_VHD,
               name_label |-> q.query.name_label,
               name_description |-> q.query.name_description], "pending")
    [] Kind(q) = "exportVdi" ->
         Call("exportContent", q.xapiObject, [format |-> q.params.format], "pending")
    [] Kind(q) = "exportXva" ->
         Call("export", q.xapiObject, [compress |-> q.query.compress], "pending")

\* the handlers of the import, delete and export routes up to their first
\* await: each awaits the promise of one backend primitive
HandlerCall(r) ==
  /\ req[r].pc = "handler"
  /\ Kind(req[r]) \in {"import", "delete", "exportVdi", "exportXva"}
  /\ \E query \in CallQueries(Kind(req[r])) :
       LET q == [Entered(req[r], Kind(req[r])) EXCEPT !.query = query]
       IN req' = [req EXCEPT ![r] = CallAndAwait(q, FirstCall(q), Kind(q))]
  /\ UNCHANGED << collections, objects, served >>

\* wrap: the awaited promise is rejected, the handler throws, next(error)
WrapCatch(r) ==
  /\ req[r].pc = "await"
  /\ Settled(req[r]) /\ Rejected(req[r])
  /\ req' = [req EXCEPT ![r] = NextError(@, Err("backendError"))]
  /\ UNCHANGED << collections, objects, served >>

\* the delete handler and the import handler after a fulfilled await:
\* res.sendStatus(200); the uuid lookup, then res.end(uuid)
AfterCall(q) ==
  CASE q.stage = "delete" -> SendStatus(q, 200)
    [] q.stage = "import" ->
         CallAndAwait(q, Call("getField", q.calls[Len(q.calls)].result, "uuid", "pending"),
                      "importField")
    [] q.stage = "importField" ->
         [q EXCEPT !.pc = "done", !.status = 200, !.envelopes = @ + 1,
                   !.out = [mode |-> "text", items |-> << q.calls[Len(q.calls)].result >>,
                            body |-> << q.calls[Len(q.calls)].result >>]]

CallDone(r) ==
  /\ req[r].pc = "await"
  /\ req[r].stage \in {"delete", "import", "importField"}
  /\ Settled(req[r]) /\ ~Rejected(req[r])
  /\ req' = [req EXCEPT ![r] = AfterCall(@)]
  /\ UNCHANGED << collections, objects, served >>


(***************************************************************************)
(* Export: the envelope, then the body.                                    *)
(***************************************************************************)
StreamHeaders ==
  { ("content-type" :> "application/octet-stream"),
    ("content-type" :> "application/octet-stream") @@ ("content-disposition" :> "inline") }

\* the streams the backend transfer primitives may open
Streams == { [statusCode |-> s, headers |-> h] : s \in {200, 206}, h \in StreamHeaders }

\* headers[name] = value
SetHeader(headers, name, value) ==
  [h \in DOMAIN headers \cup {name} |-> IF h = name THEN value ELSE headers[h]]

\* res.writeHead(statusCode, statusMessage, headers)
WriteHead(q, statusCode, headers) ==
  [q EXCEPT !.status = statusCode, !.headers = headers, !.envelopes = @ + 1]

\* mutant of ExportStart: the envelope always says 200
ExportStartOk(q, opened) ==
  LET stream == [opened EXCEPT !.headers = SetHeader(@, "content-disposition", "attachment")]
  IN [WriteHead(q, 200, stream.headers) EXCEPT
        !.pc = "copy", !.stream = stream, !.pipeline = "running"]

\* both export handlers after the stream is opened: mark it as an attachment,
\* write the envelope, start the pipeline
ExportStart(q, opened) ==
  LET stream == [opened EXCEPT !.headers = SetHeader(@, "content-disposition", "attachment")]
  IN [WriteHead(q, stream.statusCode, stream.headers) EXCEPT
        !.pc = "copy", !.stream = stream, !.pipeline = "running"]

ExportEnvelope(r) ==
  /\ req[r].pc = "await"
  /\ req[r].stage \in {"exportVdi", "exportXva"}
  /\ Settled(req[r]) /\ ~Rejected(req[r])
  /\ req' = [req EXCEPT ![r] = ExportStart(@, req[r].calls[Len(req[r].calls)].result)]
  /\ UNCHANGED << collections, objects, served >>

\* pipeline(stream, res): one chunk of the body is copied
ExportCopy(r) ==
  /\ req[r].pc = "copy"
  /\ req[r].copied < MaxChunks
  /\ req' = [req EXCEPT ![r].copied = @ + 1]
  /\ UNCHANGED << collections, objects, served >>

\* the stream ends: the pipeline calls back without error and the handler returns
ExportEnd(r) ==
  /\ req[r].pc = "copy"
  /\ req' = [req EXCEPT ![r] = [@ EXCEPT !.pc = "done", !.pipeline = "ended"]]
  /\ UNCHANGED << collections, objects, served >>

\* the stream fails (or the client goes away): the pipeline calls back with
\* the error, fromCallback rejects, wrap passes the error to next
PipelineFailed(q) == NextError([q EXCEPT !.pipeline = "failed"], Err("pipelineError"))

ExportAbort(r) ==
  /\ req[r].pc = "copy"
  /\ req' = [req EXCEPT ![r] = PipelineFailed(@)]
  /\ UNCHANGED << collections, objects, served >>

(***************************************************************************)
(* The backend completes a call.                                           *)
(***************************************************************************)
NewVdi == [n |-> 6, id |-> "d9", type |-> "VDI", name_label |-> "x"]

\* what a fulfilled call may deliver
Results(call, objs) ==
  CASE call.op = "getObjects" -> { GetObjects(objs, call.arg.filter, call.arg.limit) }
    [] call.op \in {"exportContent", "export"} -> Streams
    [] call.op = "importVdi" -> { "OpaqueRef:d9" }
    [] call.op = "getField" -> { NewVdi.id }
    [] OTHER -> { << >> }

\* what a fulfilled call does to the resources (descriptions are not among
\* the modelled properties)
Effect(call, objs) ==
  CASE call.op = "set_name_label" ->
         { IF o.id = call.target THEN [o EXCEPT !.name_label = call.arg] ELSE o : o \in objs }
    [] call.op = "destroy" -> { o \in objs : o.id # call.target }
    [] call.op = "importVdi" -> objs \cup { NewVdi }
    [] OTHER -> objs

BackendSettle(r) ==
  \E i \in DOMAIN req[r].calls :
    /\ req[r].calls[i].st = "pending"
    /\ \E ok \in BOOLEAN :
         IF ok
         THEN /\ \E result \in Results(req[r].calls[i], objects) :
                   req' = [req EXCEPT ![r].calls[i] = [@ EXCEPT !.st = "ok", !.result = result]]
              /\ objects' = Effect(req[r].calls[i], objects)
         ELSE /\ req' = [req EXCEPT ![r].calls[i].st = "failed"]
              /\ objects' = objects
    /\ UNCHANGED << collections, served >>

\* the request is over and the backend has finished its calls
Recycle(r) ==
  /\ req[r].pc = "done"
  /\ \A i \in DOMAIN req[r].calls : req[r].calls[i].st # "pending"
  /\ req' = [req EXCEPT ![r] = IdleRequest]
  /\ UNCHANGED << collections, objects, served >>

Next ==
  \E r \in Reqs :
    \/ AccessGate(r)
    \/ AuthSettle(r)
    \/ Dispatch(r)
    \/ ParamCollection(r)
    \/ ParamObject(r)
    \/ EnterHandler(r)
    \/ HandlerRoot(r)
    \/ HandlerList(r)
    \/ ListSend(r)
    \/ HandlerGet(r)
    \/ HandlerPatch(r)
    \/ PatchRespond(r)
    \/ HandlerCall(r)
    \/ WrapCatch(r)
    \/ CallDone(r)
    \/ ExportEnvelope(r)
    \/ ExportCopy(r)
    \/ ExportEnd(r)
    \/ ExportAbort(r)
    \/ BackendSettle(r)
    \/ Recycle(r)

Spec == Init /\ [][Next]_vars


(***************************************************************************)
(* Properties.                                                             *)
(***************************************************************************)
Ran(q, kind) == \E i \in DOMAIN q.ran : q.ran[i] = kind
CallsOf(q, ops) == {i \in DOMAIN q.calls : q.calls[i].op \in ops}
SetOps == {"set_name_description", "set_name_label"}

\* a response of the gateway itself with a client-error status
ClientError(q) == q.status \in 400..499 /\ q.forwarded = NoError
\* an error handed to the application's generic error handler
ServerError(q) == q.forwarded # NoError

\* C1: the patch handler (on an object of a known collection) sends its
\* success status only when none of the field-set calls it issued is still
\* pending
C1_SuccessAfterAllSetCalls ==
  \A r \in Reqs :
    (Ran(req[r], "patch") /\ req[r].collection.kind = "descriptor" /\ req[r].status = 200) =>
      \A i \in CallsOf(req[r], SetOps) : req[r].calls[i].st # "pending"

\* C2: when a field-set call of a patch request has failed, no success status
\* is sent and the request ends with the failure forwarded as a server error
C2_SetFailureIsServerError ==
  \A r \in Reqs :
    (/\ Ran(req[r], "patch") /\ req[r].collection.kind = "descriptor"
     /\ \E i \in CallsOf(req[r], SetOps) : req[r].calls[i].st = "failed") =>
      /\ req[r].status # 200
      /\ req[r].pc = "done" => ServerError(req[r])

\* no token or a token rejected as invalid credentials, or a principal whose
\* permission is not the administrative one
Unauthorized(q) ==
  \/ q.auth.state = "rejected" /\ invalidCredentialsIs(q.auth.error)
  \/ q.auth.state = "fulfilled" /\ q.auth.permission # "admin"

\* C3: an unauthorized request, whatever its method and path, is answered 401
\* by the gate: no validator and no handler runs for it and no backend call is
\* made; nor does any of this happen before authentication has settled
C3_UnauthorizedNeverRouted ==
  \A r \in Reqs :
    LET q == req[r]
    IN /\ (q.pc = "auth" \/ Unauthorized(q)) =>
            q.validated = << >> /\ q.ran = << >> /\ q.calls = << >>
       /\ Unauthorized(q) =>
            q.pc = "done" /\ q.status = 401 /\ q.forwarded = NoError /\ q.out = NoOut

C3_Witness ==
  \E r \in Reqs :
    /\ Unauthorized(req[r])
    /\ req[r].auth.state = "fulfilled"
    /\ req[r].method = "DELETE" /\ req[r].path.len = 2 /\ req[r].path.c = "vms"
    /\ req[r].status = 401

\* C4: a rejected authentication is answered 401 when the error is an
\* invalid-credentials error, and is otherwise forwarded to the generic error
\* handler without any status being sent; no validator or handler runs
C4_GateRejection ==
  \A r \in Reqs :
    LET q == req[r]
    IN q.auth.state = "rejected" =>
         /\ q.pc = "done" /\ q.ran = << >> /\ q.validated = << >> /\ q.calls = << >>
         /\ IF invalidCredentialsIs(q.auth.error)
            THEN q.status = 401 /\ q.forwarded = NoError
            ELSE q.forwarded = q.auth.error /\ q.status = 0 /\ q.envelopes = 0

C4_Witness ==
  \E r \in Reqs :
    /\ req[r].auth.state = "rejected"
    /\ ~invalidCredentialsIs(req[r].auth.error)
    /\ req[r].forwarded = Err("authError")
    /\ req[r].pc = "done"


Admin(q) == q.auth.state = "fulfilled" /\ q.auth.permission = "admin"

\* C5: a POST to /srs/<id>/vdis by an administrator, <id> naming a storage
\* repository the backend holds, ends with exactly one importVdi call, whose
\* format is raw exactly when the raw flag is present and whose names are the
\* query's, and, when the backend calls succeed, with the new identifier
C5_ImportCallsPrimitiveOnce ==
  \A r \in Reqs :
    LET q == req[r]
        imports == CallsOf(q, {"importVdi"})
    IN (/\ q.method = "POST" /\ q.path.len = 3 /\ q.path.c = "srs" /\ q.path.t = "vdis"
        /\ Admin(q) /\ q.pc = "done"
        /\ \E o \in objects : o.id = Full(q.path.o) /\ o.type = "SR") =>
         /\ Cardinality(imports) = 1
         /\ \A i \in imports :
              /\ q.calls[i].arg.format = (IF q.query.raw # Undefined THEN "raw" ELSE "vhd")
              /\ q.calls[i].arg.name_label = q.query.name_label
              /\ q.calls[i].arg.name_description = q.query.name_description
         /\ (\A i \in DOMAIN q.calls : q.calls[i].st = "ok") =>
              q.status = 200 /\ q.out.items = << NewVdi.id >>

\* C6: a failure of the body copy of an export is not forwarded to the
\* generic error handler and the envelope stays the only one written
C6_MidStreamErrorNotForwarded ==
  \A r \in Reqs :
    req[r].pipeline = "failed" => req[r].forwarded = NoError /\ req[r].envelopes = 1

ExportOps == {"exportContent", "export"}

\* C7: an export handler opens one backend stream; nothing is written while
\* the stream is not open; once it is, the envelope is written once, before
\* any body chunk, with the stream's status code and the stream's headers
\* plus content-disposition: attachment; when opening fails no envelope is
\* written and the request ends with the failure forwarded
C7_ExportEnvelope ==
  \A r \in Reqs :
    LET q == req[r]
        opens == CallsOf(q, ExportOps)
    IN (Ran(q, "exportVdi") \/ Ran(q, "exportXva")) =>
         /\ q.envelopes <= 1
         /\ Cardinality(opens) = 1
         /\ (q.copied > 0 \/ q.pipeline # "none") => q.envelopes = 1
         /\ \A i \in opens :
              /\ q.calls[i].st # "ok" => q.envelopes = 0 /\ q.copied = 0 /\ q.status = 0
              /\ (q.calls[i].st = "failed" /\ q.pc = "done") => ServerError(q)
              /\ q.envelopes = 1 =>
                   /\ q.status = q.calls[i].result.statusCode
                   /\ q.headers = SetHeader(q.calls[i].result.headers,
                                            "content-disposition", "attachment")

C7_Witness ==
  \E r \in Reqs :
    /\ Ran(req[r], "exportVdi")
    /\ req[r].status = 206
    /\ req[r].copied >= 1
    /\ req[r].pipeline = "failed"
    /\ \E i \in CallsOf(req[r], ExportOps) :
         "content-disposition" \in DOMAIN req[r].calls[i].result.headers

\* C8: a list request (on a known collection) with a malformed filter ends
\* with a client-error response, not with an error handed to the generic
\* error handler as a backend failure is, and sends no listing
C8_MalformedFilterIsClientError ==
  \A r \in Reqs :
    LET q == req[r]
    IN (/\ Ran(q, "list") /\ q.collection.kind = "descriptor"
        /\ q.query.filter = MalformedFilter /\ q.pc = "done") =>
         ClientError(q) /\ ~ServerError(q) /\ q.out = NoOut

\* the href of the i-th element of a listing
ItemHref(q, i) ==
  IF q.query.fields # Undefined THEN q.out.items[i]["href"] ELSE q.out.items[i]

\* C9: a listing of a known collection without limit has one element for each
\* resource of the collection's type that satisfies the user filter (every
\* resource when there is no filter), and no other element
C9_ListingExact ==
  \A r \in Reqs :
    LET q == req[r]
    IN (/\ Ran(q, "list") /\ q.path.c \in DOMAIN collections
        /\ q.status = 200 /\ q.query.limit = NoLimit) =>
         LET expected == {o \in objects :
                            /\ o.type = collections[q.path.c].type
                            /\ q.query.filter # Undefined => UserFilter(q.query.filter, o)}
         IN /\ {ItemHref(q, i) : i \in DOMAIN q.out.items}
                 = {baseUrl \o "/" \o q.path.c \o "/" \o o.id : o \in expected}
            /\ Len(q.out.items) = Cardinality(expected)

C9_Witness ==
  \E r \in Reqs :
    /\ Ran(req[r], "list") /\ req[r].path.c = "vdis" /\ req[r].status = 200
    /\ req[r].query.limit = NoLimit /\ req[r].query.filter = "name_label:x"
    /\ Len(req[r].out.items) = 1
    /\ \E o \in objects : o.type # "VDI" /\ o.name_label = "x"
    /\ \E o \in objects : o.type = "VDI" /\ o.name_label # "x"

\* C10: for a collection segment that is not the id of a descriptor the
\* collection validator reports a route miss: the request context gets no
\* collection, no handler runs, no backend call is made, nothing is forwarded
\* to the generic error handler and the request ends not found; for the id
\* of a descriptor the handler finds that descriptor in the request context
C10_UnknownCollectionIsRouteMiss ==
  \A r \in Reqs :
    LET q == req[r]
    IN /\ (\E i \in DOMAIN q.validated :
             /\ q.validated[i].param = "collection"
             /\ q.validated[i].value \notin DOMAIN collections) =>
            /\ q.calledCollection.error = "route"
            /\ q.collection = UnsetCollection
            /\ q.ran = << >>
            /\ q.calls = << >>
            /\ q.forwarded = NoError
            /\ q.pc = "done" => q.status = 404
       /\ (q.pc = "handler" /\ q.params.collection \in DOMAIN collections) =>
            q.collection = collections[q.params.collection]

\* the routes whose path has an object segment
ObjectKinds == {"get", "patch", "import", "delete", "exportVdi", "exportXva"}
\* the latest call of q among those of the given operations
LastOf(q, ops) == CHOOSE i \in CallsOf(q, ops) : \A j \in CallsOf(q, ops) : j <= i

\* C11: when the backend answers the object validator's lookup with
\* no-such-object for the id and type asked, the validator reports a route
\* miss and raises no error; any other failure of the lookup is forwarded as
\* a server error and ends the request; a handler of a route with an object
\* segment runs only after a successful lookup of the id in the path with the
\* collection's type, and at its start that resource exists
C11_ObjectValidator ==
  \A r \in Reqs :
    LET q == req[r]
        G == CallsOf(q, {"getObject"})
        miss(i) == noSuchObjectIs(q.calls[i].result, q.calls[i].target, q.calls[i].arg)
    IN /\ \A i \in G : (q.calls[i].st = "failed" /\ i # LastOf(q, {"getObject"})) => miss(i)
       /\ (G # {} /\ q.calls[LastOf(q, {"getObject"})].st = "failed") =>
            LET i == LastOf(q, {"getObject"})
            IN IF miss(i)
               THEN /\ q.calledObject = [match |-> q.calls[i].target, error |-> "route"]
                    /\ q.forwarded = NoError
                    /\ q.status \in {0, 404}
                    /\ \A k \in ObjectKinds : ~Ran(q, k)
               ELSE /\ q.pc = "done"
                    /\ ServerError(q)
                    /\ q.forwarded = q.calls[i].result
                    /\ q.status = 0
                    /\ q.ran = << >>
       /\ (\E k \in ObjectKinds : Ran(q, k)) =>
            /\ G # {}
            /\ LET g == q.calls[LastOf(q, {"getObject"})]
               IN /\ g.st = "ok"
                  /\ g.target = q.params.object
                  /\ g.arg = q.collection.type
                  /\ q.xoObject = g.target
       /\ (q.pc = "handler" /\ Kind(q) \in ObjectKinds) =>
            \E o \in objects :
              /\ o.id = q.xoObject
              /\ q.xoObject = q.params.object
              /\ q.collection.kind = "descriptor" => o.type = q.collection.type

\* a patch of an id the backend does not know ends as a route miss
C11_Witness ==
  \E r \in Reqs :
    /\ req[r].method = "PATCH"
    /\ req[r].pc = "done"
    /\ req[r].status = 404
    /\ req[r].calledObject = [match |-> "zz", error |-> "route"]
    /\ CallsOf(req[r], {"getObject"}) # {}

\* C12: the root listing has exactly one element for each descriptor of the
\* table and no other element, and the href of the element of a collection is
\* the path of that collection's list route: the base path, one '/' and the
\* collection's id
C12_RootListing ==
  \A r \in Reqs :
    LET q == req[r]
    IN (Ran(q, "root") /\ q.status = 200) =>
         /\ Len(q.out.items) = Cardinality(DOMAIN collections)
         /\ \A id \in DOMAIN collections :
              \E i \in DOMAIN q.out.items : ItemHref(q, i) = baseUrl \o "/" \o id

\* the collections of disks, disk snapshots, VMs, VM snapshots and VM templates
DestroyEligible ==
  {CollectionId(t) : t \in {"VDI", "VDI-snapshot", "VM", "VM-snapshot", "VM-template"}}

\* C13: a DELETE request reaches the delete handler only for a collection of
\* disks, disk snapshots, VMs, VM snapshots or VM templates; the handler calls
\* the destroy primitive of the validated resource exactly once; the request
\* is answered 200 only after that call has completed successfully; a failed
\* destroy is forwarded as a server error and no success is sent
C13_Delete ==
  \A r \in Reqs :
    LET q == req[r]
        D == CallsOf(q, {"destroy"})
    IN q.method = "DELETE" =>
         /\ Ran(q, "delete") => q.path.c \in DestroyEligible
         /\ (q.path.len = 2 /\ q.path.c \notin DestroyEligible) =>
              q.calls = << >> /\ q.ran = << >> /\ q.status # 200
         /\ Cardinality(D) = IF Ran(q, "delete") THEN 1 ELSE 0
         /\ \A i \in D : q.calls[i].target = q.xapiObject /\ q.xapiObject = Full(q.path.o)
         /\ q.status = 200 => \E i \in D : q.calls[i].st = "ok"
         /\ (q.pc = "done" /\ \E i \in D : q.calls[i].st = "failed") =>
              q.status = 0 /\ ServerError(q)

\* a delete answered 200 after the backend destroyed the disk
C13_Witness ==
  \E r \in Reqs :
    /\ req[r].method = "DELETE" /\ Ran(req[r], "delete")
    /\ req[r].status = 200 /\ req[r].path.c = "vdis"
    /\ ~ \E o \in objects : o.id = req[r].xoObject

\* C14: the patch handler issues, for each of the two keys name_description
\* and name_label, exactly one set call on the validated resource with the
\* body's value when the body has the key and none when it has not; it issues
\* no call for any other key of the body; with neither key in the body it
\* issues no call and the request ends with the success status
C14_PatchCalls ==
  \A r \in Reqs :
    LET q == req[r]
    IN Ran(q, "patch") =>
         /\ \A key \in {"name_description", "name_label"} :
              LET S == CallsOf(q, {"set_" \o key})
              IN /\ Cardinality(S) = IF q.body[key] # Undefined THEN 1 ELSE 0
                 /\ \A i \in S : /\ q.calls[i].arg = q.body[key]
                                 /\ q.calls[i].target = q.xapiObject
         /\ \A i \in DOMAIN q.calls : q.calls[i].op \in SetOps \cup {"getObject"}
         /\ (q.body.name_description = Undefined /\ q.body.name_label = Undefined) =>
              /\ CallsOf(q, SetOps) = {}
              /\ q.forwarded = NoError
              /\ q.pc = "done" => q.status = 200

\* a patch whose body has one whitelisted key and one other key
C14_Witness ==
  \E r \in Reqs :
    /\ Ran(req[r], "patch") /\ req[r].pc = "done"
    /\ req[r].body.other = "z" /\ req[r].body.name_label = "y"
    /\ req[r].body.name_description = Undefined
    /\ Cardinality(CallsOf(req[r], SetOps)) = 1

\* the sequence of property sets a finished listing request handed to sendObjects
Sent(q) ==
  IF Ran(q, "root") THEN DescriptorList(collections)
  ELSE LET got == q.calls[LastOf(q, {"getObjects"})].result
       IN [i \in DOMAIN got |-> Properties(got[i])]

\* C15: sendObjects renders a sequence of resources element by element, in
\* order: without a field list the element is the href string alone; with a
\* field list it is an object whose keys are the requested names that the
\* resource has, with the resource's values, plus href, a requested name the
\* resource lacks being absent; href is basePath, '/' and the resource's id;
\* the output is determined by the resources, the field list and basePath,
\* and the resources of the backend are as they were
C15_Projection ==
  \A r \in Reqs :
    LET q == req[r]
        basePath == baseUrl \o PathText(q.path)
    IN ((Ran(q, "root") \/ Ran(q, "list")) /\ q.status = 200) =>
         /\ Len(q.out.items) = Len(Sent(q))
         /\ \A i \in DOMAIN q.out.items :
              LET item == q.out.items[i]
                  resource == Sent(q)[i]
                  href == basePath \o "/" \o resource.id
              IN IF q.query.fields = Undefined
                 THEN item = href
                 ELSE /\ DOMAIN item =
                           (Split(q.query.fields) \cap DOMAIN resource) \cup {"href"}
                      /\ item["href"] = href
                      /\ \A k \in DOMAIN item \ {"href"} : item[k] = resource[k]
         /\ Ran(q, "list") =>
              \A i \in DOMAIN Sent(q) : \E o \in objects : Properties(o) = Sent(q)[i]

\* a listing with a field list that names a property the resources lack
C15_Witness ==
  \E r \in Reqs :
    /\ Ran(req[r], "list") /\ req[r].status = 200
    /\ req[r].query.fields = "name_label,nope"
    /\ Len(req[r].out.items) = 2

\* what a client reads from a JSON array: the texts between the brackets,
\* separated by commas
ParseJsonArray(chunks) ==
  SelectSeq(SubSeq(chunks, 2, Len(chunks) - 1), LAMBDA t : t # ",")
\* what a client reads from newline-delimited JSON: the text of each line
ParseNdJson(chunks) == [i \in 1..(Len(chunks) \div 2) |-> chunks[2 * i - 1]]

\* C16: the streamed and the buffered output of sendObjects carry the same
\* elements in the same order: the body sent in either mode, read back in
\* that mode's framing, is the sequence of the JSON texts of the projected
\* resources, and the other mode's framing of the same results reads back to
\* the same sequence; the streamed body is one line per element, the
\* buffered body a single array
C16_StreamedEqualsBuffered ==
  \A r \in Reqs :
    LET q == req[r]
        basePath == baseUrl \o PathText(q.path)
        plain == q.query.fields = Undefined
        expected == [i \in DOMAIN Sent(q) |->
                       JSONStringify(Project(basePath, Sent(q)[i], q.query.fields), plain)]
    IN ((Ran(q, "root") \/ Ran(q, "list")) /\ q.status = 200) =>
         IF q.query.ndjson # Undefined
         THEN /\ q.out.mode = "ndjson"
              /\ Len(q.out.body) = 2 * Len(expected)
              /\ \A i \in DOMAIN expected : q.out.body[2 * i] = "\n"
              /\ ParseNdJson(q.out.body) = expected
              /\ ParseJsonArray(resJson(q.out.items, plain)) = ParseNdJson(q.out.body)
         ELSE /\ q.out.mode = "json"
              /\ q.out.body[1] = "[" /\ q.out.body[Len(q.out.body)] = "]"
              /\ ParseJsonArray(q.out.body) = expected
              /\ ParseNdJson(createNdJsonStream(q.out.items, plain))
                   = ParseJsonArray(q.out.body)

\* a streamed listing of two elements with a field list
C16_Witness ==
  \E r \in Reqs :
    /\ Ran(req[r], "list") /\ req[r].status = 200
    /\ req[r].out.mode = "ndjson" /\ req[r].query.fields = "id"
    /\ Len(req[r].out.items) = 2
    /\ Len(req[r].out.body) = 4

\* C17: a listing of a known collection with limit k has at most k elements,
\* each the href of a different resource of the collection's type that
\* satisfies the user filter; a listing without limit has an element for
\* every such resource, however many there are
C17_Limit ==
  \A r \in Reqs :
    LET q == req[r]
        expected == {o \in objects :
                       /\ o.type = collections[q.path.c].type
                       /\ q.query.filter # Undefined => UserFilter(q.query.filter, o)}
        hrefs == {ItemHref(q, i) : i \in DOMAIN q.out.items}
    IN (Ran(q, "list") /\ q.path.c \in DOMAIN collections /\ q.status = 200) =>
         /\ hrefs \subseteq {baseUrl \o "/" \o q.path.c \o "/" \o o.id : o \in expected}
         /\ Cardinality(hrefs) = Len(q.out.items)
         /\ q.query.limit # NoLimit => Len(q.out.items) <= q.query.limit
         /\ q.query.limit = NoLimit => Len(q.out.items) = Cardinality(expected)

\* a listing cut by its limit
C17_Witness ==
  \E r \in Reqs :
    /\ Ran(req[r], "list") /\ req[r].path.c = "vdis" /\ req[r].status = 200
    /\ req[r].query.limit = 1 /\ req[r].query.filter = Undefined
    /\ Len(req[r].out.items) = 1
    /\ Cardinality({o \in objects : o.type = "VDI"}) > req[r].query.limit

\* C18: whenever the object validator runs, on any route with an object
\* segment, the request context carries a collection: the validator never
\* reads the resource type from a missing collection
C18_ObjectValidatorHasCollection ==
  \A r \in Reqs :
    \A i \in DOMAIN req[r].validated :
      req[r].validated[i].param = "object" => req[r].validated[i].collection # "unset"

\* a GET by an administrator of /{collection}/{id}.{format}, the format one of
\* the collection's export formats, id the id of a resource of the
\* collection's type, and no resource having the whole segment as its id
ExportRequest(q) ==
  /\ q.method = "GET" /\ q.path.len = 2 /\ Admin(q)
  /\ \/ q.path.c \in VdiCollections /\ q.path.o.ext \in VdiFormats
     \/ q.path.c \in VmCollections /\ q.path.o.ext = "xva"
  /\ \E o \in objects : o.id = q.path.o.id /\ o.type = collections[q.path.c].type
  /\ ~ \E o \in objects : o.id = Full(q.path.o)

\* C19: for such a request no handler other than the collection's export
\* handler runs, and that one at most once; when it runs, the object
\* validator has run twice, first on the plain object route with the whole
\* segment, which the backend did not know, then on the export route with id
\* alone, which it found; unless a backend call fails, the request ends
\* served by the export handler, with one envelope
C19_ExportRouting ==
  \A r \in Reqs :
    LET q == req[r]
        kind == IF q.path.c \in VdiCollections THEN "exportVdi" ELSE "exportXva"
        G == CallsOf(q, {"getObject"})
    IN ExportRequest(q) =>
         /\ \A i \in DOMAIN q.ran : q.ran[i] = kind
         /\ Len(q.ran) <= 1
         /\ Ran(q, kind) =>
              /\ [i \in DOMAIN q.validated |-> q.validated[i].param]
                   = << "collection", "object", "object" >>
              /\ [i \in DOMAIN q.validated |-> q.validated[i].value]
                   = << q.path.c, Full(q.path.o), q.path.o.id >>
              /\ Cardinality(G) = 2
              /\ \A i \in G :
                   IF i = LastOf(q, {"getObject"})
                   THEN q.calls[i].target = q.path.o.id /\ q.calls[i].st = "ok"
                   ELSE q.calls[i].target = Full(q.path.o) /\ q.calls[i].st = "failed"
              /\ q.xoObject = q.path.o.id
         /\ (q.pc = "done" /\ q.forwarded = NoError) =>
              Ran(q, kind) /\ q.status \in {200, 206} /\ q.envelopes = 1

\* the export of disk d2 in raw format, served after the miss for 'd2.raw'
C19_Witness ==
  \E r \in Reqs :
    /\ ExportRequest(req[r]) /\ Full(req[r].path.o) = "d2.raw"
    /\ req[r].pc = "done" /\ req[r].ran = << "exportVdi" >>
    /\ req[r].pipeline = "ended"

(***************************************************************************)
(* Concurrent requests: a request may arrive while others are suspended.   *)
(***************************************************************************)
\* the requests of the concurrent runs, all with an administrator's cookie:
\* reads of the VM collection in the first slot, reads and writes of a disk
\* in the other
ConcurrentRequests(r) ==
  IF r = FirstSlot
  THEN { [method |-> "GET", path |-> [len |-> 0, c |-> "", o |-> NoSeg, t |-> ""]],
         [method |-> "GET", path |-> [len |-> 1, c |-> "vms", o |-> NoSeg, t |-> ""]],
         [method |-> "GET",
          path |-> [len |-> 2, c |-> "vms", o |-> [id |-> "m1", ext |-> "xva"], t |-> ""]] }
  ELSE { [method |-> "GET",
          path |-> [len |-> 2, c |-> "vdis", o |-> [id |-> "d1", ext |-> ""], t |-> ""]],
         [method |-> "PATCH",
          path |-> [len |-> 2, c |-> "vdis", o |-> [id |-> "d1", ext |-> ""], t |-> ""]],
         [method |-> "DELETE",
          path |-> [len |-> 2, c |-> "vdis", o |-> [id |-> "d1", ext |-> ""], t |-> ""]] }

\* a request arrives at the gate, whatever the other requests are doing
Arrive(r) ==
  /\ req[r].pc = "idle"
  /\ \E a \in ConcurrentRequests(r) :
       req' = [req EXCEPT ![r] = [IdleRequest EXCEPT
                 !.pc = "auth", !.method = a.method, !.path = a.path,
                 !.cookies = [authenticationToken |-> "tAdmin", token |-> Undefined]]]
  /\ UNCHANGED << collections, objects, served >>

NextConcurrent ==
  \E r \in Reqs :
    \/ Arrive(r)
    \/ AuthSettle(r)
    \/ Dispatch(r)
    \/ ParamCollection(r)
    \/ ParamObject(r)
    \/ EnterHandler(r)
    \/ HandlerRoot(r)
    \/ HandlerList(r)
    \/ ListSend(r)
    \/ HandlerGet(r)
    \/ HandlerPatch(r)
    \/ PatchRespond(r)
    \/ HandlerCall(r)
    \/ WrapCatch(r)
    \/ CallDone(r)
    \/ ExportEnvelope(r)
    \/ ExportCopy(r)
    \/ ExportEnd(r)
    \/ ExportAbort(r)
    \/ BackendSettle(r)
    \/ Recycle(r)

SpecConcurrent == Init /\ [][NextConcurrent]_vars

\* the collection and the resource in the context of q are those of q's path
OwnContext(q) ==
  /\ q.collection.kind \in {"unset", "descriptor"}
  /\ q.collection.kind = "descriptor" =>
       q.path.c \in DOMAIN collections /\ q.collection = collections[q.path.c]
  /\ q.xoObject # Undefined => q.xoObject \in {Full(q.path.o), q.path.o.id}
  /\ q.xapiObject # Undefined => q.xapiObject = q.xoObject

\* the backend calls of q name the collection and the resource of q's path
OwnCalls(q) ==
  \A i \in DOMAIN q.calls :
    CASE q.calls[i].op = "getObject" ->
           /\ q.calls[i].target \in {Full(q.path.o), q.path.o.id}
           /\ q.calls[i].arg = collections[q.path.c].type
      [] q.calls[i].op = "getObjects" ->
           q.calls[i].arg.filter.member = collections[q.path.c]
      [] q.calls[i].op \in SetOps \cup {"destroy", "exportContent", "export"} ->
           q.calls[i].target = q.path.o.id
      [] OTHER -> TRUE

\* C20: under any interleaving of the steps of concurrent requests the
\* descriptor table stays as it was built; the collection and the resource in
\* a request's context change only in a step of that request's own validator
\* for them (or when the request's context is discarded at its end); and
\* every request's context and backend calls name the collection and the
\* resource of its own path
C20_RequestIsolation ==
  /\ [](/\ collections = BuildCollections
        /\ \A r \in Reqs : OwnContext(req[r]) /\ OwnCalls(req[r])
        /\ \A r \in Reqs : Ran(req[r], "get") => req[r].out.items = << req[r].path.o.id >>)
  /\ [][/\ collections' = collections
        /\ \A r \in Reqs :
             /\ req'[r].collection # req[r].collection => ParamCollection(r) \/ Recycle(r)
             /\ (req'[r].xoObject # req[r].xoObject \/ req'[r].xapiObject # req[r].xapiObject)
                  => ParamObject(r) \/ Recycle(r)]_vars

\* a listing of the VMs and the destruction of a disk, both suspended in
\* their backend call
C20_Witness ==
  /\ req["r1"].pc = "await" /\ req["r1"].stage = "list"
  /\ req["r1"].collection.id = "vms"
  /\ \E i \in CallsOf(req["r1"], {"getObjects"}) : req["r1"].calls[i].st = "pending"
  /\ req["r2"].pc = "await" /\ req["r2"].stage = "delete"
  /\ req["r2"].collection.id = "vdis" /\ req["r2"].xoObject = "d1"
  /\ \E i \in CallsOf(req["r2"], {"destroy"}) : req["r2"].calls[i].st = "pending"

====
